---- MODULE Spec2Model ----
(***************************************************************************)
(* SPX tracker: the band / backtest calculation of fetch_data.py and       *)
(* app.py, the index route of app.py and the fetch job of fetch_data.py.   *)
(*                                                                         *)
(* Prices are exact rationals <<n, d>> (d > 0, lowest terms); <<0, 0>> is   *)
(* NaN.  The code computes in IEEE doubles: the model is the real-valued   *)
(* calculation the doubles approximate.                                    *)
(***************************************************************************)
EXTENDS Integers, Sequences, FiniteSets, TLC

\* ------------------------------------------------------------------ bounds

\* Longest upstream history of the main specification (trading days).
MaxDays == 3
\* The window specification: the longest quiet start of a history and the
\* longest tail of free days after it.
BaseDays == 9
MaxTail == 3
\* Longest upstream history of the network specification.
MaxNetDays == 3
\* Longest 'days' query value of the query specification (characters).
MaxQueryLen == 5

\* ------------------------------------------------------- program constants

\* app.py: default, lower and upper limit of the 'days' parameter.
DefaultDays == 40
MinDays == 10
MaxDisplayDays == 500

\* ------------------------------------------------------------- rationals

NaN == <<0, 0>>

IsNaN(x) == x[2] = 0

Abs(n) == IF n < 0 THEN -n ELSE n

RECURSIVE GCD(_, _)
GCD(a, b) == IF b = 0 THEN a ELSE GCD(b, a % b)

\* The rational n/d in lowest terms with a positive denominator.
Rat(n, d) ==
    IF d = 0 THEN NaN
    ELSE LET g == GCD(Abs(n), Abs(d))
             s == IF d < 0 THEN -1 ELSE 1
         IN  <<(s * n) \div g, (s * d) \div g>>

Num(n) == <<n, 1>>

RAdd(x, y) == IF IsNaN(x) \/ IsNaN(y) THEN NaN
              ELSE Rat(x[1] * y[2] + y[1] * x[2], x[2] * y[2])

RSub(x, y) == IF IsNaN(x) \/ IsNaN(y) THEN NaN
              ELSE Rat(x[1] * y[2] - y[1] * x[2], x[2] * y[2])

RMul(x, y) == IF IsNaN(x) \/ IsNaN(y) THEN NaN
              ELSE Rat(x[1] * y[1], x[2] * y[2])

\* Division of floats: a zero divisor gives inf or NaN, which the model
\* folds into NaN (no divisor of the program is zero).
RDiv(x, y) == IF IsNaN(x) \/ IsNaN(y) THEN NaN
              ELSE Rat(x[1] * y[2], x[2] * y[1])

\* Comparisons with NaN are False, as in IEEE arithmetic and pandas.
RLe(x, y) == ~IsNaN(x) /\ ~IsNaN(y) /\ x[1] * y[2] <= y[1] * x[2]

RGe(x, y) == RLe(y, x)

RLt(x, y) == ~IsNaN(x) /\ ~IsNaN(y) /\ x[1] * y[2] < y[1] * x[2]

\* ------------------------------------------------------ band calculation

\* 15.87, the de-annualising divisor.
SqrtTradingDays == Rat(1587, 100)

Hundred == Num(100)

One == Num(1)

\* df['VIX'] / 15.87
BadDaily_Sigma(vix) == RDiv(vix, Rat(1578, 100))

Daily_Sigma(vix) == RDiv(vix, SqrtTradingDays)

\* df['SPX'] * (1 + k * df['Daily_Sigma'] / 100)
Predicted_Upper(k, spx, sigma) ==
    RMul(spx, RAdd(One, RDiv(RMul(Num(k), sigma), Hundred)))

\* df['SPX'] * (1 - k * df['Daily_Sigma'] / 100)
BadPredicted_Lower(k, spx, sigma) ==
    RMul(spx, RAdd(One, RDiv(RMul(Num(k), sigma), Hundred)))

Predicted_Lower(k, spx, sigma) ==
    RMul(spx, RSub(One, RDiv(RMul(Num(k), sigma), Hundred)))

\* Series.shift(1): every value moves one row down, row 1 becomes NaN.
BadShift(col) == col

Shift(col) == [i \in 1..Len(col) |-> IF i = 1 THEN NaN ELSE col[i - 1]]

\* (df['SPX'] >= lower) & (df['SPX'] <= upper)
BadWithin(spx, lower, upper) == RLt(lower, spx) /\ RLt(spx, upper)

Within(spx, lower, upper) == RGe(spx, lower) /\ RLe(spx, upper)

\* ~df['Within_1σ'] & df['Within_2σ']
Outside_1s(w1, w2) == ~w1 /\ w2

\* ~df['Within_2σ']
BadOutside_2s(w1, w2) == ~w1

Outside_2s(w1, w2) == ~w2

\* ------------------------------------------------------- upstream series

VARIABLES
    spx_data,      \* what the upstream source holds for ^GSPC: <<[Date, Close]>>
    vix_data,      \* what the upstream source holds for ^VIX
    response,      \* the latest request, what its downloads did, the page
    job,           \* the latest fetch job run: what its downloads did, its report
    data_file,     \* DATA_FILE (spx_data.json)
    display_file   \* DISPLAY_FILE (display_data.json)

vars == <<spx_data, vix_data, response, job, data_file, display_file>>

\* Series.reindex(index, method='ffill') at one date: the value of the latest
\* row dated at or before it, NaN when there is none.
BadFfill(series, date) ==
    IF series = <<>> THEN NaN ELSE series[Len(series)].Close

Ffill(series, date) ==
    LET at == {i \in 1..Len(series) : series[i].Date <= date}
    IN  IF at = {} THEN NaN
        ELSE series[CHOOSE i \in at : \A j \in at : j <= i].Close

\* df.iloc[1:]
BadDropFirst(df) == df

DropFirst(df) == SubSeq(df, 2, Len(df))

\* df.tail(n)
BadTailRows(df, n) == SubSeq(df, 1, IF n < Len(df) THEN n ELSE Len(df))

TailRows(df, n) ==
    IF n >= Len(df) THEN df ELSE SubSeq(df, Len(df) - n + 1, Len(df))

\* A column or frame as a sequence: the function with its values computed.
Column(f) == SubSeq(f, 1, Len(f))

\* The frame both get_spx_data functions build, column by column, from the
\* two downloaded series (fetch_data.py 46-107, app.py 28-50).
ComputeFrame(spx, vix) ==
    LET n    == Len(spx)
        SPX  == Column([i \in 1..n |-> spx[i].Close])
        VIX  == Column([i \in 1..n |-> Ffill(vix, spx[i].Date)])
        Sig  == Column([i \in 1..n |-> Daily_Sigma(VIX[i])])
        P1U  == Column([i \in 1..n |-> Predicted_Upper(1, SPX[i], Sig[i])])
        P1L  == Column([i \in 1..n |-> Predicted_Lower(1, SPX[i], Sig[i])])
        P2U  == Column([i \in 1..n |-> Predicted_Upper(2, SPX[i], Sig[i])])
        P2L  == Column([i \in 1..n |-> Predicted_Lower(2, SPX[i], Sig[i])])
        U1   == Column(Shift(P1U))
        L1   == Column(Shift(P1L))
        U2   == Column(Shift(P2U))
        L2   == Column(Shift(P2L))
        W1   == Column([i \in 1..n |-> Within(SPX[i], L1[i], U1[i])])
        W2   == Column([i \in 1..n |-> Within(SPX[i], L2[i], U2[i])])
    IN  Column([i \in 1..n |->
            [Date               |-> spx[i].Date,
             SPX                |-> SPX[i],
             VIX                |-> VIX[i],
             Daily_Sigma        |-> Sig[i],
             Predicted_1s_Upper |-> P1U[i],
             Predicted_1s_Lower |-> P1L[i],
             Predicted_2s_Upper |-> P2U[i],
             Predicted_2s_Lower |-> P2L[i],
             Upper_1s           |-> U1[i],
             Lower_1s           |-> L1[i],
             Upper_2s           |-> U2[i],
             Lower_2s           |-> L2[i],
             Within_1s          |-> W1[i],
             Within_2s          |-> W2[i],
             Outside_1s         |-> Outside_1s(W1[i], W2[i]),
             Outside_2s         |-> Outside_2s(W1[i], W2[i])]])

\* What one yf.download call does: "data" returns the series the source
\* holds, "empty" an empty frame, "raise" raises.
DownloadOutcomes == {"data", "empty", "raise"}

NetOutcomes == [GSPC : DownloadOutcomes, VIX : DownloadOutcomes]

Downloaded(outcome, series) == IF outcome = "data" THEN series ELSE <<>>

\* The try block of both get_spx_data functions: ^GSPC is downloaded, then
\* ^VIX; an exception of either ends the block, an empty frame of either
\* returns None.  attempts counts the download calls made per ticker.
BadFetch(net) ==
    [attempts |-> [GSPC |-> IF net.GSPC = "raise" THEN 2 ELSE 1,
                   VIX  |-> IF net.VIX = "raise" THEN 2 ELSE 1],
     failed   |-> IF net.GSPC = "raise" \/ net.VIX = "raise" THEN "raised"
                  ELSE IF Downloaded(net.GSPC, spx_data) = <<>>
                          \/ Downloaded(net.VIX, vix_data) = <<>>
                       THEN "empty" ELSE "no"]

Fetch(net) ==
    IF net.GSPC = "raise"
    THEN [attempts |-> [GSPC |-> 1, VIX |-> 0], failed |-> "raised"]
    ELSE IF net.VIX = "raise"
    THEN [attempts |-> [GSPC |-> 1, VIX |-> 1], failed |-> "raised"]
    ELSE IF Downloaded(net.GSPC, spx_data) = <<>>
            \/ Downloaded(net.VIX, vix_data) = <<>>
    THEN [attempts |-> [GSPC |-> 1, VIX |-> 1], failed |-> "empty"]
    ELSE [attempts |-> [GSPC |-> 1, VIX |-> 1], failed |-> "no"]

\* fetch_data.get_spx_data(): None after a failed fetch, else the frame
\* without its first row.  printed is what it wrote to stdout after the
\* "Fetching data" line.
get_spx_data(net) ==
    LET f == Fetch(net)
    IN  IF f.failed = "raised"
        THEN [value |-> "None", df |-> <<>>, attempts |-> f.attempts,
              printed |-> "Error downloading data from yfinance"]
        ELSE IF f.failed = "empty"
        THEN [value |-> "None", df |-> <<>>, attempts |-> f.attempts,
              printed |-> "Error: No data fetched from yfinance."]
        ELSE [value |-> "DataFrame",
              df |-> DropFirst(ComputeFrame(spx_data, vix_data)),
              attempts |-> f.attempts, printed |-> ""]

\* app.get_spx_data(days_to_fetch): as above, but the whole frame is returned.
app_get_spx_data(net) ==
    LET f == Fetch(net)
    IN  IF f.failed = "raised"
        THEN [value |-> "None", df |-> <<>>, attempts |-> f.attempts,
              printed |-> "Error downloading data from yfinance"]
        ELSE IF f.failed = "empty"
        THEN [value |-> "None", df |-> <<>>, attempts |-> f.attempts,
              printed |-> "Error: No data fetched from yfinance."]
        ELSE [value |-> "DataFrame",
              df |-> ComputeFrame(spx_data, vix_data),
              attempts |-> f.attempts, printed |-> ""]

\* ------------------------------------------------------ display summary

\* Timestamp.weekday(): 0 is Monday; dates are day numbers, day 0 a Monday.
Weekday(d) == d % 7

Last(df) == df[Len(df)]

\* get_display_data(df): the dict written to DISPLAY_FILE.  df.iloc[-1] and
\* df.iloc[-2] raise IndexError on a frame of fewer than two rows.
get_display_data(df) ==
    IF Len(df) < 2
    THEN [raised |-> "IndexError", data |-> <<>>]
    ELSE
    LET latest   == df[Len(df)]
        previous == df[Len(df) - 1]
        day1     == latest.Date + 1
        next_day == IF Weekday(day1) = 5 THEN day1 + 2
                    ELSE IF Weekday(day1) = 6 THEN day1 + 1
                    ELSE day1
        result   == IF latest.Outside_2s THEN "Outside 2s (Rare)"
                    ELSE IF latest.Outside_1s THEN "Outside 1s"
                    ELSE IF latest.Within_1s THEN "Within 1s"
                    ELSE "N/A"
    IN  [raised |-> "",
         data |-> <<
           [latest_date_str     |-> latest.Date,
            previous_date_str   |-> previous.Date,
            prediction_date_str |-> next_day,
            latest_result_str   |-> result,
            latest_spx          |-> latest.SPX,
            latest_vix          |-> latest.VIX,
            previous_spx        |-> previous.SPX,
            previous_vix        |-> previous.VIX,
            test_1s_lower       |-> latest.Lower_1s,
            test_1s_upper       |-> latest.Upper_1s,
            test_2s_lower       |-> latest.Lower_2s,
            test_2s_upper       |-> latest.Upper_2s,
            test_actual_close   |-> latest.SPX,
            pred_1s_lower       |-> latest.Predicted_1s_Lower,
            pred_1s_upper       |-> latest.Predicted_1s_Upper,
            pred_1s_range       |-> RSub(latest.Predicted_1s_Upper,
                                         latest.Predicted_1s_Lower),
            pred_2s_lower       |-> latest.Predicted_2s_Lower,
            pred_2s_upper       |-> latest.Predicted_2s_Upper,
            pred_2s_range       |-> RSub(latest.Predicted_2s_Upper,
                                         latest.Predicted_2s_Lower)] >>]

\* ------------------------------------------------------------ index route

Digits == {"0", "1", "2", "3", "4", "5", "6", "7", "8", "9"}

DigitValue(c) ==
    CASE c = "0" -> 0 [] c = "1" -> 1 [] c = "2" -> 2 [] c = "3" -> 3
      [] c = "4" -> 4 [] c = "5" -> 5 [] c = "6" -> 6 [] c = "7" -> 7
      [] c = "8" -> 8 [] c = "9" -> 9

RECURSIVE DigitsValue(_)
DigitsValue(s) ==
    IF s = <<>> THEN 0
    ELSE DigitsValue(SubSeq(s, 1, Len(s) - 1)) * 10 + DigitValue(s[Len(s)])

\* int(str): an optional sign, then one or more decimal digits; anything
\* else raises ValueError.  (Surrounding blanks and underscores between
\* digits, which int() also accepts, are outside the modelled alphabet.)
ParseInt(s) ==
    LET signed == s # <<>> /\ s[1] \in {"-", "+"}
        body   == IF signed THEN Tail(s) ELSE s
        valid  == body # <<>> /\ \A i \in 1..Len(body) : body[i] \in Digits
    IN  IF ~valid THEN [ok |-> FALSE, value |-> 0]
        ELSE [ok |-> TRUE,
              value |-> IF signed /\ s[1] = "-" THEN -DigitsValue(body)
                        ELSE DigitsValue(body)]

\* int(request.args.get('days', 40)), ValueError giving 40.
RequestedDays(req) ==
    IF ~req.has_days THEN DefaultDays
    ELSE LET p == ParseInt(req.days)
         IN  IF p.ok THEN p.value ELSE DefaultDays

\* if days_to_display < 10: ... = 10 ; if days_to_display > 500: ... = 500
BadEnforceLimits(d) == IF d > MaxDisplayDays THEN MaxDisplayDays ELSE d

EnforceLimits(d) ==
    LET d1 == IF d < MinDays THEN MinDays ELSE d
    IN  IF d1 > MaxDisplayDays THEN MaxDisplayDays ELSE d1

\* int(days_to_display * 1.7 + 5)
CalendarDaysToFetch(d) == (17 * d + 50) \div 10

\* (count / total_days) * 100 if total_days > 0 else 0
Pct(count, total) ==
    IF total > 0 THEN RMul(Rat(count, total), Hundred) ELSE Num(0)

\* df[col].sum() of a boolean column
CountTrue(df, col) == Cardinality({i \in 1..Len(df) : df[i][col]})

\* The rows of df whose boolean column col is True: df[df[col]].
RowsWhere(df, col) == SelectSeq(df, LAMBDA r : r[col])

BandRow(r) ==
    [Date |-> r.Date, Lower_1s |-> r.Lower_1s, Upper_1s |-> r.Upper_1s,
     Lower_2s |-> r.Lower_2s, Upper_2s |-> r.Upper_2s]

\* The chart page: sections 4 to 9 of index(), given the clean frame and
\* the charted window.
ChartPage(days_to_display, df_clean, df) ==
    LET today_stats     == df_clean[Len(df_clean)]
        yesterday_stats == df_clean[Len(df_clean) - 1]
        tomorrow_date   == Last(df).Date + 1
        df_tomorrow     ==
            [Date     |-> tomorrow_date,
             Lower_1s |-> today_stats.Predicted_1s_Lower,
             Upper_1s |-> today_stats.Predicted_1s_Upper,
             Lower_2s |-> today_stats.Predicted_2s_Lower,
             Upper_2s |-> today_stats.Predicted_2s_Upper]
        df_all          ==
            Append(Column([i \in 1..Len(df) |-> BandRow(df[i])]), df_tomorrow)
        today_chart     == Last(df)
        total_days      == Len(df)
        within_1s       == CountTrue(df, "Within_1s")
        outside_1s      == CountTrue(df, "Outside_1s")
        outside_2s      == CountTrue(df, "Outside_2s")
        df_outside_1s   == RowsWhere(df, "Outside_1s")
        df_outside_2s   == RowsWhere(df, "Outside_2s")
    IN  [kind          |-> "chart",
         days_to_display |-> days_to_display,
         bands         |-> df_all,
         spx_trace     |-> Column([i \in 1..Len(df) |->
                               [Date |-> df[i].Date, SPX |-> df[i].SPX]]),
         marks_1s      |-> Column([i \in 1..Len(df_outside_1s) |->
                               df_outside_1s[i].Date]),
         marks_2s      |-> Column([i \in 1..Len(df_outside_2s) |->
                               df_outside_2s[i].Date]),
         rect          |-> [x0 |-> Last(df).Date, x1 |-> tomorrow_date,
                            y0 |-> Last(df).Lower_2s,
                            y1 |-> Last(df).Upper_2s],
         current_days  |-> days_to_display,
         spx_today     |-> today_stats.SPX,
         vix_today     |-> today_stats.VIX,
         spx_yesterday |-> yesterday_stats.SPX,
         vix_yesterday |-> yesterday_stats.VIX,
         pred_today_1u |-> today_chart.Upper_1s,
         pred_today_1l |-> today_chart.Lower_1s,
         pred_today_2u |-> today_chart.Upper_2s,
         pred_today_2l |-> today_chart.Lower_2s,
         pred_today_1r |-> RSub(today_chart.Upper_1s, today_chart.Lower_1s),
         pred_today_2r |-> RSub(today_chart.Upper_2s, today_chart.Lower_2s),
         pred_tmrw_1u  |-> today_stats.Predicted_1s_Upper,
         pred_tmrw_1l  |-> today_stats.Predicted_1s_Lower,
         pred_tmrw_2u  |-> today_stats.Predicted_2s_Upper,
         pred_tmrw_2l  |-> today_stats.Predicted_2s_Lower,
         pred_tmrw_1r  |-> RSub(today_stats.Predicted_1s_Upper,
                                today_stats.Predicted_1s_Lower),
         pred_tmrw_2r  |-> RSub(today_stats.Predicted_2s_Upper,
                                today_stats.Predicted_2s_Lower),
         td            |-> total_days,
         w1            |-> within_1s,
         o1            |-> outside_1s,
         o2            |-> outside_2s,
         p1            |-> Pct(within_1s, total_days),
         p4            |-> Pct(outside_1s, total_days),
         p3            |-> Pct(outside_2s, total_days)]

\* df.empty or len(df) < 2: the guard before the chart is built.
BadTooFew(df) == df = <<>> \/ Len(df) < 3

TooFew(df) == df = <<>> \/ Len(df) < 2

\* index(): the page returned for one request, with the frame get_spx_data
\* handed to it.
index(req, net) ==
    LET days_to_display == EnforceLimits(RequestedDays(req))
        calendar_days_to_fetch == CalendarDaysToFetch(days_to_display)
        df_full  == app_get_spx_data(net)
        df_clean == DropFirst(df_full.df)
        df       == TailRows(df_clean, days_to_display)
    IN  [df_full |-> df_full,
         page |->
           IF df_full.value = "None"
           THEN [kind |-> "fetch_error", days_to_display |-> days_to_display]
           ELSE IF TooFew(df_clean)
           THEN [kind |-> "not_enough_data",
                 days_to_display |-> days_to_display,
                 calendar_days_to_fetch |-> calendar_days_to_fetch]
           ELSE IF TooFew(df)
           THEN [kind |-> "not_enough_after_filtering",
                 days_to_display |-> days_to_display]
           ELSE ChartPage(days_to_display, df_clean, df)]

\* -------------------------------------------------------------- actions

\* The first trading day of the upstream history: day 3, a Thursday.
FirstDate == 3

\* The trading day after d: weekends are skipped.
NextTradingDate(d) == IF Weekday(d + 1) = 5 THEN d + 3 ELSE d + 1

AllData == [GSPC |-> "data", VIX |-> "data"]

NoDays == [has_days |-> FALSE, days |-> <<>>]

Days(s) == [has_days |-> TRUE, days |-> s]

\* No call of get_spx_data has returned.
NotCalled == [value |-> "not called", df |-> <<>>,
              attempts |-> [GSPC |-> 0, VIX |-> 0], printed |-> ""]

NoResponse == [request |-> NoDays, net |-> AllData, df_full |-> NotCalled,
               page |-> [kind |-> "none"]]

NoJob == [net |-> AllData, dataframe |-> NotCalled,
          report |-> [kind |-> "none"]]

\* The index closes the upstream source may report.
Closes == {Rat(995, 10), Num(100), Num(102)}

\* The kinds of trading day of the main specification: each close with a
\* volatility close of 15.87, a day without a ^VIX row, a day of zero
\* volatility.
DayKinds ==
    {[Close |-> c, has_vix |-> TRUE, Vix |-> Rat(1587, 100)] : c \in Closes}
    \cup {[Close |-> Num(100), has_vix |-> FALSE, Vix |-> NaN],
          [Close |-> Rat(995, 10), has_vix |-> TRUE, Vix |-> Num(0)]}

\* Closes of the quiet histories (the volatility close stays at 15.87).
QuietCloses == {Num(100), Rat(1015, 10), Num(103)}

\* The exchange closes a trading day: the source gains a ^GSPC row and, when
\* has_vix, a ^VIX row of the same date.  The page and the job report of
\* earlier operations are gone by then.
NewDay(limit, close, has_vix, vix) ==
    /\ Len(spx_data) < limit
    /\ LET d == IF spx_data = <<>> THEN FirstDate
                ELSE NextTradingDate(Last(spx_data).Date)
       IN  /\ spx_data' = Append(spx_data, [Date |-> d, Close |-> close])
           /\ vix_data' = IF has_vix
                          THEN Append(vix_data, [Date |-> d, Close |-> vix])
                          ELSE vix_data
    /\ response' = NoResponse
    /\ job' = NoJob
    /\ UNCHANGED <<data_file, display_file>>

TradingDay(day) == NewDay(MaxDays, day.Close, day.has_vix, day.Vix)

NetDay(close) == NewDay(MaxNetDays, close, TRUE, Rat(1587, 100))

\* GET /: one request handled from start to end.
Index(req, net) ==
    /\ LET r == index(req, net)
       IN  response' = [request |-> req, net |-> net, df_full |-> r.df_full,
                        page |-> r.page]
    /\ job' = NoJob
    /\ UNCHANGED <<spx_data, vix_data, data_file, display_file>>

\* python fetch_data.py: one run of the __main__ block.  An exception of
\* get_display_data ends the run before either file is opened.
FetchJob(net) ==
    LET dataframe == get_spx_data(net)
        display   == get_display_data(dataframe.df)
        report    ==
            IF dataframe.value # "None" /\ dataframe.df # <<>>
            THEN IF display.raised # ""
                 THEN [kind |-> "crashed", error |-> display.raised]
                 ELSE [kind |-> "saved"]
            ELSE [kind |-> "failed"]
    IN  /\ response' = NoResponse
        /\ job' = [net |-> net, dataframe |-> dataframe, report |-> report]
        /\ UNCHANGED <<spx_data, vix_data>>
        /\ IF report.kind = "saved"
           THEN /\ data_file' = <<dataframe.df>>
                /\ display_file' = display.data
           ELSE UNCHANGED <<data_file, display_file>>

\* Neither file exists before the job's first run.
Init ==
    /\ spx_data = <<>>
    /\ vix_data = <<>>
    /\ response = NoResponse
    /\ job = NoJob
    /\ data_file = <<>>
    /\ display_file = <<>>

\* A request that has arrived and is not served yet.
Pending(req) == [request |-> req, net |-> AllData, df_full |-> NotCalled,
                 page |-> [kind |-> "pending"]]

\* The pending request is served.
Serve ==
    /\ response.page.kind = "pending"
    /\ Index(response.request, response.net)

MainRequests == {NoDays, Days(<<"5">>)}

\* The band calculation on short histories of every kind of day; the source
\* answers every download.
Next ==
    \/ \E day \in DayKinds : TradingDay(day)
    \/ \E req \in MainRequests : Index(req, AllData)
    \/ FetchJob(AllData)

Spec == Init /\ [][Next]_vars

\* Every outcome of the two downloads, on short quiet histories.
NextNet ==
    \/ \E c \in QuietCloses : NetDay(c)
    \/ \E net \in NetOutcomes : Index(NoDays, net)
    \/ \E net \in NetOutcomes : FetchJob(net)

SpecNet == Init /\ [][NextNet]_vars

\* Histories around the smallest window: up to BaseDays quiet days (close
\* 100) followed by up to MaxTail days of any quiet close, volatility 15.87.
RECURSIVE TradingDate(_)
TradingDate(i) ==
    IF i = 1 THEN FirstDate ELSE NextTradingDate(TradingDate(i - 1))

HistoryOf(closes) ==
    Column([i \in 1..Len(closes) |->
               [Date |-> TradingDate(i), Close |-> closes[i]]])

QuietBase(k) == Column([i \in 1..k |-> Num(100)])

Tails == UNION {[1..k -> QuietCloses] : k \in 0..MaxTail}

WindowHistories ==
    {HistoryOf(QuietBase(k) \o t) : k \in 0..BaseDays, t \in Tails}

InitWindow ==
    /\ spx_data \in WindowHistories
    /\ vix_data = Column([i \in 1..Len(spx_data) |->
                     [Date |-> spx_data[i].Date, Close |-> Rat(1587, 100)]])
    /\ response = NoResponse
    /\ job = NoJob
    /\ data_file = <<>>
    /\ display_file = <<>>

WindowRequests == {NoDays, Days(<<"1", "0">>)}

NextWindow == \E req \in WindowRequests : Index(req, AllData)

SpecWindow == InitWindow /\ [][NextWindow]_vars

\* Every value of the 'days' parameter over a small alphabet, served once
\* against a fixed history.
QueryChars == {"-", "0", "1", "5", "a"}

QueryStrings ==
    UNION {[1..k -> QueryChars] : k \in 0..MaxQueryLen} \cup {<<"a", "b", "c">>}

AllRequests == {NoDays} \cup {Days(q) : q \in QueryStrings}

SampleSpx == HistoryOf(<<Num(100), Rat(995, 10), Num(102)>>)

SampleVix == [i \in 1..3 |-> [Date |-> SampleSpx[i].Date,
                              Close |-> Rat(1587, 100)]]

InitQuery ==
    /\ spx_data = SampleSpx
    /\ vix_data = SampleVix
    /\ response \in {Pending(req) : req \in AllRequests}
    /\ job = NoJob
    /\ data_file = <<>>
    /\ display_file = <<>>

NextQuery == Serve

SpecQuery == InitQuery /\ [][NextQuery]_vars

\* ------------------------------------------------------------ the claims

\* The frame the latest fetch job run got from get_spx_data, if it got one.
JobFrame == IF job.dataframe.value = "DataFrame" THEN job.dataframe.df ELSE <<>>

\* The frame the latest request got from app.get_spx_data, if it got one.
PageFrame ==
    IF response.df_full.value = "DataFrame" THEN response.df_full.df ELSE <<>>

\* x <= y on rationals, by cross multiplication; False on NaN.
Leq(x, y) == x[2] # 0 /\ y[2] # 0 /\ x[1] * y[2] <= y[1] * x[2]

\* The volatility close aligned to input row i.
VolAt(i) == Ffill(vix_data, spx_data[i].Date)

\* Every close and every aligned volatility close of the input is a number
\* that is not negative.
ValidHistory ==
    \A i \in 1..Len(spx_data) :
        Leq(Num(0), spx_data[i].Close) /\ Leq(Num(0), VolAt(i))

ClassCount(r) ==
    Cardinality({c \in {"Within_1s", "Outside_1s", "Outside_2s"} : r[c]})

\* C1: on a history of non-negative closes and volatilities, every row the
\* band calculation returns after the first input row has exactly one of
\* Within_1s, Outside_1s, Outside_2s, and the summary's result label of the
\* latest row is never "N/A".
C1_ExactlyOneClass ==
    ValidHistory =>
        /\ \A i \in 1..Len(JobFrame) : ClassCount(JobFrame[i]) = 1
        /\ \A i \in 2..Len(PageFrame) : ClassCount(PageFrame[i]) = 1
        /\ (job.report.kind = "saved" =>
                display_file[1].latest_result_str # "N/A")

\* A saved run on a valid history whose two rows are outside 1 sigma and
\* outside 2 sigma.
C1_Witness ==
    /\ ValidHistory
    /\ job.report.kind = "saved"
    /\ Len(JobFrame) = 2
    /\ JobFrame[1].Outside_1s
    /\ JobFrame[2].Outside_2s
    /\ display_file[1].latest_result_str = "Outside 2s (Rare)"

\* The reference rule on a row's own shifted bounds.
InBand1(r) == Leq(r.Lower_1s, r.SPX) /\ Leq(r.SPX, r.Upper_1s)

InBand2(r) == Leq(r.Lower_2s, r.SPX) /\ Leq(r.SPX, r.Upper_2s)

RefClass(r) ==
    IF InBand1(r) THEN "Within_1s"
    ELSE IF InBand2(r) THEN "Outside_1s"
    ELSE "Outside_2s"

MatchesRule(r) ==
    \A c \in {"Within_1s", "Outside_1s", "Outside_2s"} : r[c] <=> (RefClass(r) = c)

\* C2: every row after the first is classified by the reference rule (closed
\* intervals: a close on a shifted bound is inside), and the history
\* (close 100, vol 15.87), (close 99.5) has its row 1 within 1 sigma.
C2_ReferenceRule ==
    /\ \A i \in 1..Len(JobFrame) : MatchesRule(JobFrame[i])
    /\ \A i \in 2..Len(PageFrame) : MatchesRule(PageFrame[i])
    /\ \A f \in {JobFrame, DropFirst(PageFrame)} :
          (/\ f # <<>>
           /\ spx_data[1].Close = Num(100)
           /\ VolAt(1) = Rat(1587, 100)
           /\ spx_data[2].Close = Rat(995, 10))
          => f[1].Within_1s

\* The example's two rows, then a row whose close is exactly on its shifted
\* 1 sigma bounds and counts as inside.
C2_Witness ==
    /\ Len(JobFrame) = 2
    /\ spx_data[1].Close = Num(100)
    /\ VolAt(1) = Rat(1587, 100)
    /\ spx_data[2].Close = Rat(995, 10)
    /\ JobFrame[1].Within_1s
    /\ JobFrame[2].SPX = JobFrame[2].Upper_1s
    /\ JobFrame[2].Within_1s

\* A request has been served.
Served == response.page.kind \notin {"none", "pending"}

\* The window size the claim gives for a 'days' value.
RefWindow(req) ==
    IF ~req.has_days \/ ~ParseInt(req.days).ok THEN 40
    ELSE LET d == ParseInt(req.days).value
         IN  IF d < 10 THEN 10 ELSE IF d > 500 THEN 500 ELSE d

\* C3: the effective window size is in [10, 500]: 40 for an absent or
\* non-integer 'days', 10 below 10, 500 above 500, the value itself otherwise
\* (5 gives 10, 10000 gives 500, "abc" gives 40).
C3_WindowClamp ==
    Served =>
        /\ response.page.days_to_display \in 10..500
        /\ response.page.days_to_display = RefWindow(response.request)
        /\ (response.request = Days(<<"5">>)
                => response.page.days_to_display = 10)
        /\ (response.request = Days(<<"1", "0", "0", "0", "0">>)
                => response.page.days_to_display = 500)
        /\ (response.request = Days(<<"a", "b", "c">>)
                => response.page.days_to_display = 40)
        /\ (response.page.kind = "chart"
                => response.page.current_days = response.page.days_to_display)

\* A negative 'days' served with a window of 10 on the chart page.
C3_Witness ==
    /\ Served
    /\ response.request = Days(<<"-", "5">>)
    /\ response.page.kind = "chart"
    /\ response.page.current_days = 10

\* The predicted bound of input row i, from that row's close and volatility.
InputUpper(k, i) ==
    Predicted_Upper(k, spx_data[i].Close, Daily_Sigma(VolAt(i)))

InputLower(k, i) ==
    Predicted_Lower(k, spx_data[i].Close, Daily_Sigma(VolAt(i)))

\* Row r carries, as its test bounds, the predicted bounds of input row j.
TestsRow(r, j) ==
    /\ r.Upper_1s = InputUpper(1, j)
    /\ r.Lower_1s = InputLower(1, j)
    /\ r.Upper_2s = InputUpper(2, j)
    /\ r.Lower_2s = InputLower(2, j)

\* Input rows j and t have different predicted bounds.
Distinguishable(j, t) ==
    <<InputUpper(1, j), InputLower(1, j), InputUpper(2, j), InputLower(2, j)>>
      # <<InputUpper(1, t), InputLower(1, t), InputUpper(2, t), InputLower(2, t)>>

\* C4: the output of get_spx_data on n >= 2 input rows is the input rows
\* 2..n in order, each carrying as test bounds the predicted bounds of the
\* input row just before it and of no distinguishable other row; the first
\* input row is in no output and in no backtest count.
C4_OneRowDelay ==
    LET n == Len(spx_data)
    IN  /\ (job.dataframe.value = "DataFrame" /\ n >= 2) =>
              /\ Len(JobFrame) = n - 1
              /\ \A i \in 1..(n - 1) :
                    /\ JobFrame[i].Date = spx_data[i + 1].Date
                    /\ JobFrame[i].SPX = spx_data[i + 1].Close
                    /\ TestsRow(JobFrame[i], i)
                    /\ \A j \in 1..n :
                          Distinguishable(j, i) => ~TestsRow(JobFrame[i], j)
              /\ \A i \in 1..Len(JobFrame) :
                    JobFrame[i].Date # spx_data[1].Date
        /\ (response.page.kind = "chart") =>
              /\ \A i \in 2..n : TestsRow(PageFrame[i], i - 1)
              /\ \A i \in 1..Len(response.page.spx_trace) :
                    response.page.spx_trace[i].Date # spx_data[1].Date
              /\ response.page.td = Len(response.page.spx_trace)
              /\ response.page.td <= n - 1
              /\ response.page.w1 + response.page.o1 + response.page.o2
                    <= n - 1

\* A saved run on three input rows of three different predictions.
C4_Witness ==
    /\ job.report.kind = "saved"
    /\ Len(spx_data) = 3
    /\ Len(data_file[1]) = 2
    /\ Distinguishable(1, 2)
    /\ Distinguishable(2, 3)
    /\ Distinguishable(1, 3)
    /\ TestsRow(data_file[1][2], 2)

\* close * (1 + k * (vol / 15.87) / 100) in integers: the close in tenths,
\* the volatility in hundredths.
Tenths(x) == (x[1] * 10) \div x[2]

Hundredths(x) == (x[1] * 100) \div x[2]

ScaledBound(k, close, vol) ==
    IF IsNaN(close) \/ IsNaN(vol) THEN NaN
    ELSE Rat(Tenths(close) * (158700 + k * Hundredths(vol)), 1587000)

ScaledSigma(vol) == IF IsNaN(vol) THEN NaN ELSE Rat(Hundredths(vol), 1587)

FreshBounds(r) ==
    /\ r.Daily_Sigma = ScaledSigma(r.VIX)
    /\ r.Predicted_1s_Upper = ScaledBound(1, r.SPX, r.VIX)
    /\ r.Predicted_1s_Lower = ScaledBound(-1, r.SPX, r.VIX)
    /\ r.Predicted_2s_Upper = ScaledBound(2, r.SPX, r.VIX)
    /\ r.Predicted_2s_Lower = ScaledBound(-2, r.SPX, r.VIX)

ExampleBounds(r) ==
    (r.SPX = Num(100) /\ r.VIX = Rat(1587, 100)) =>
        /\ r.Daily_Sigma = Num(1)
        /\ r.Predicted_1s_Upper = Num(101)
        /\ r.Predicted_1s_Lower = Num(99)
        /\ r.Predicted_2s_Upper = Num(102)
        /\ r.Predicted_2s_Lower = Num(98)

\* C5: every row's predicted bounds are close * (1 +- k * sigma / 100) with
\* sigma = vol / 15.87 of the same row; close 100 and vol 15.87 give sigma 1
\* and the bounds 101, 99, 102, 98.
C5_PredictedBounds ==
    \A f \in {JobFrame, PageFrame} :
        \A i \in 1..Len(f) : FreshBounds(f[i]) /\ ExampleBounds(f[i])

\* A run whose latest row closes at 100 with a volatility of 15.87.
C5_Witness ==
    /\ Len(JobFrame) >= 1
    /\ Last(JobFrame).SPX = Num(100)
    /\ Last(JobFrame).VIX = Rat(1587, 100)
    /\ Last(JobFrame).Predicted_2s_Lower = Num(98)
    /\ JobFrame[1].SPX = Rat(995, 10)
    /\ JobFrame[1].Predicted_1s_Upper = Rat(20099, 200)

ValidRow(close, vol) == Leq(Num(0), close) /\ Leq(Num(0), vol)

Ordered(l2, l1, close, u1, u2) ==
    Leq(l2, l1) /\ Leq(l1, close) /\ Leq(close, u1) /\ Leq(u1, u2)

\* C6: a row of non-negative close and volatility has sigma >= 0 and
\* Predicted_2s_Lower <= Predicted_1s_Lower <= close <= Predicted_1s_Upper
\* <= Predicted_2s_Upper; the test bounds of every output row are ordered
\* the same way around the close they were predicted from.
C6_BandOrder ==
    /\ \A f \in {JobFrame, PageFrame} : \A i \in 1..Len(f) :
          ValidRow(f[i].SPX, f[i].VIX) =>
              /\ Leq(Num(0), f[i].Daily_Sigma)
              /\ Ordered(f[i].Predicted_2s_Lower, f[i].Predicted_1s_Lower,
                         f[i].SPX, f[i].Predicted_1s_Upper,
                         f[i].Predicted_2s_Upper)
    /\ \A i \in 1..Len(JobFrame) :
          ValidRow(spx_data[i].Close, VolAt(i)) =>
              Ordered(JobFrame[i].Lower_2s, JobFrame[i].Lower_1s,
                      spx_data[i].Close, JobFrame[i].Upper_1s,
                      JobFrame[i].Upper_2s)
    /\ \A i \in 2..Len(PageFrame) :
          ValidRow(spx_data[i - 1].Close, VolAt(i - 1)) =>
              Ordered(PageFrame[i].Lower_2s, PageFrame[i].Lower_1s,
                      spx_data[i - 1].Close, PageFrame[i].Upper_1s,
                      PageFrame[i].Upper_2s)

\* A run with a row of positive volatility, whose bands are strictly nested,
\* after a row of zero volatility, whose bands collapse onto the close.
C6_Witness ==
    /\ Len(JobFrame) = 2
    /\ JobFrame[1].VIX = Num(0)
    /\ JobFrame[2].Upper_2s = JobFrame[2].Lower_2s
    /\ RLt(Num(0), JobFrame[2].Daily_Sigma)
    /\ RLt(JobFrame[2].Predicted_2s_Lower, JobFrame[2].Predicted_1s_Lower)
    /\ RLt(JobFrame[2].Predicted_1s_Lower, JobFrame[2].SPX)
    /\ RLt(JobFrame[2].SPX, JobFrame[2].Predicted_1s_Upper)
    /\ RLt(JobFrame[2].Predicted_1s_Upper, JobFrame[2].Predicted_2s_Upper)

\* The clean sequence of the latest request: the rows after the first.
CleanLen == IF PageFrame = <<>> THEN 0 ELSE Len(PageFrame) - 1

\* min(days_to_display, available)
WindowLen ==
    IF response.page.days_to_display < CleanLen
    THEN response.page.days_to_display ELSE CleanLen

\* The rows of PageFrame in the trailing window.
WindowRows == {i \in 1..Len(PageFrame) : i > Len(PageFrame) - WindowLen}

RefCount(c) == Cardinality({i \in WindowRows : PageFrame[i][c]})

SummaryOver(n) ==
    /\ response.page.kind = "chart"
    /\ response.page.td = n
    /\ {response.page.spx_trace[i].Date : i \in 1..Len(response.page.spx_trace)}
          = {PageFrame[i].Date : i \in WindowRows}
    /\ response.page.w1 = RefCount("Within_1s")
    /\ response.page.o1 = RefCount("Outside_1s")
    /\ response.page.o2 = RefCount("Outside_2s")
    /\ n > 0 => /\ response.page.p1 = Rat(100 * RefCount("Within_1s"), n)
                /\ response.page.p4 = Rat(100 * RefCount("Outside_1s"), n)
                /\ response.page.p3 = Rat(100 * RefCount("Outside_2s"), n)
    /\ n = 0 => /\ response.page.p1 = Num(0)
                /\ response.page.p4 = Num(0)
                /\ response.page.p3 = Num(0)

\* C7 as claimed: the summary is over the last N = min(days_to_display,
\* available) clean rows, with percentages count/N*100, and with all three
\* percentages 0 when N = 0.
C7_SummaryForEveryWindow ==
    (Served /\ response.df_full.value = "DataFrame") => SummaryOver(WindowLen)

\* C7, amended: the summary is produced only for N >= 2, over exactly the
\* last N clean rows with percentages count/N*100; for N < 2, N = 0
\* included, the route answers "not enough data" and computes no percentage.
C7_SummaryForWindowsOfTwo ==
    (Served /\ response.df_full.value = "DataFrame") =>
        IF WindowLen >= 2 THEN SummaryOver(WindowLen)
        ELSE response.page.kind = "not_enough_data"

\* A window of 10 cut from 11 clean rows, with rows of every class in it.
C7_Witness ==
    /\ response.page.kind = "chart"
    /\ CleanLen = 11
    /\ response.page.td = 10
    /\ response.page.w1 = 7
    /\ response.page.o1 = 2
    /\ response.page.o2 = 1
    /\ response.page.p1 = Num(70)
    /\ response.page.p4 = Num(20)
    /\ response.page.p3 = Num(10)

\* C8: everything the chart page presents as tomorrow's range (the appended
\* row of the band traces, the card values, the shaded rectangle) is the
\* latest row's own fresh prediction.
C8_TomorrowIsFreshPrediction ==
    response.page.kind = "chart" =>
        LET latest   == Last(PageFrame)
            tomorrow == Last(response.page.bands)
        IN  /\ tomorrow.Upper_1s = latest.Predicted_1s_Upper
            /\ tomorrow.Lower_1s = latest.Predicted_1s_Lower
            /\ tomorrow.Upper_2s = latest.Predicted_2s_Upper
            /\ tomorrow.Lower_2s = latest.Predicted_2s_Lower
            /\ response.page.pred_tmrw_1u = latest.Predicted_1s_Upper
            /\ response.page.pred_tmrw_1l = latest.Predicted_1s_Lower
            /\ response.page.pred_tmrw_2u = latest.Predicted_2s_Upper
            /\ response.page.pred_tmrw_2l = latest.Predicted_2s_Lower
            /\ response.page.rect.y0 = latest.Predicted_2s_Lower
            /\ response.page.rect.y1 = latest.Predicted_2s_Upper

\* The calls of get_spx_data the latest operations made.
Calls == {c \in {job.dataframe, response.df_full} : c.value # "not called"}

\* C9 as claimed: on an empty or single-row history the band calculation
\* fails with InsufficientDataError and returns no sequence.
C9_InsufficientDataError ==
    Len(spx_data) <= 1 =>
        \A c \in Calls : c.value = "InsufficientDataError"

\* C9, amended: on an empty or single-row history no error is raised.
\* fetch_data.get_spx_data returns None when a downloaded series is empty
\* and else an empty sequence; app.get_spx_data returns None or the one
\* unshifted row, which index() drops.  The job reports failure and writes
\* no file, the route answers with an error page.
C9_NoObservationSequence ==
    Len(spx_data) <= 1 =>
        /\ job.report.kind # "none" =>
              /\ \/ job.dataframe.value = "None"
                 \/ /\ job.dataframe.value = "DataFrame"
                    /\ Len(spx_data) = 1
              /\ job.dataframe.df = <<>>
              /\ job.report.kind = "failed"
              /\ data_file = <<>> /\ display_file = <<>>
        /\ Served =>
              /\ \/ /\ response.df_full.value = "None"
                    /\ response.page.kind = "fetch_error"
                 \/ /\ response.df_full.value = "DataFrame"
                    /\ Len(spx_data) = 1
                    /\ response.page.kind = "not_enough_data"
              /\ DropFirst(response.df_full.df) = <<>>

\* A run on a single row with its volatility: an empty sequence is returned.
C9_Witness ==
    /\ Len(spx_data) = 1
    /\ Len(vix_data) = 1
    /\ job.dataframe.value = "DataFrame"
    /\ job.dataframe.df = <<>>
    /\ job.report.kind = "failed"

\* A download of the call raised or returned an empty series.
FetchFailed(net) ==
    \/ net.GSPC # "data" \/ net.VIX # "data"
    \/ spx_data = <<>> \/ vix_data = <<>>

FailureReported(c) ==
    /\ c.value = "None"
    /\ c.printed # ""
    /\ c.df = <<>>

\* C10 as claimed: after a failed download get_spx_data reports it and
\* returns None after exactly one attempt per ticker; the route answers with
\* the fetch-error page, the job reports failure, no exception escapes.
C10_ExactlyOneAttemptEach ==
    /\ (job.report.kind # "none" /\ FetchFailed(job.net)) =>
          /\ FailureReported(job.dataframe)
          /\ job.dataframe.attempts = [GSPC |-> 1, VIX |-> 1]
          /\ job.report.kind = "failed"
    /\ (Served /\ FetchFailed(response.net)) =>
          /\ FailureReported(response.df_full)
          /\ response.df_full.attempts = [GSPC |-> 1, VIX |-> 1]
          /\ response.page.kind = "fetch_error"

\* The attempts of a failed fetch: ^GSPC once, ^VIX once unless the ^GSPC
\* download raised.
AttemptsOf(net) ==
    [GSPC |-> 1, VIX |-> IF net.GSPC = "raise" THEN 0 ELSE 1]

\* C10, amended: as claimed, with at most one attempt per ticker: ^GSPC is
\* tried once, ^VIX once unless the ^GSPC download raised, and then not at
\* all.
C10_AtMostOneAttemptEach ==
    /\ (job.report.kind # "none" /\ FetchFailed(job.net)) =>
          /\ FailureReported(job.dataframe)
          /\ job.dataframe.attempts = AttemptsOf(job.net)
          /\ job.report.kind = "failed"
    /\ (Served /\ FetchFailed(response.net)) =>
          /\ FailureReported(response.df_full)
          /\ response.df_full.attempts = AttemptsOf(response.net)
          /\ response.page.kind = "fetch_error"

\* The source holds three days of data and the ^GSPC download raises.
C10_Witness ==
    /\ Len(spx_data) = 3
    /\ Len(vix_data) = 3
    /\ job.net = [GSPC |-> "raise", VIX |-> "data"]
    /\ job.dataframe.attempts = [GSPC |-> 1, VIX |-> 0]
    /\ job.dataframe.printed = "Error downloading data from yfinance"
    /\ job.report.kind = "failed"

NotEnoughPages == {"not_enough_data", "not_enough_after_filtering"}

\* C11: a request that got a frame is answered with the chart page only when
\* the trailing window of the clean sequence has at least 2 rows, and the
\* chart is then built from those rows; with fewer than 2 rows after the
\* first row is dropped or after the window is taken, the answer is a "not
\* enough data" message and nothing of the chart or of the latest and
\* previous rows is computed.
C11_ChartNeedsTwoRows ==
    /\ (Served /\ response.df_full.value = "DataFrame") =>
          IF CleanLen < 2 \/ WindowLen < 2
          THEN /\ response.page.kind \in NotEnoughPages
               /\ DOMAIN response.page \subseteq
                     {"kind", "days_to_display", "calendar_days_to_fetch"}
          ELSE /\ response.page.kind = "chart"
               /\ Len(response.page.spx_trace) = WindowLen
               /\ response.page.spx_today = Last(PageFrame).SPX
               /\ response.page.spx_yesterday
                     = PageFrame[Len(PageFrame) - 1].SPX
    /\ response.page.kind = "chart" =>
          /\ response.df_full.value = "DataFrame"
          /\ Len(response.page.spx_trace) >= 2

\* Two days of history leave one clean row: the message, not a chart.
C11_Witness ==
    /\ Len(spx_data) = 2
    /\ response.df_full.value = "DataFrame"
    /\ Len(response.df_full.df) = 2
    /\ response.page.kind = "not_enough_data"

\* The step is a run of the fetch job.
JobRuns == job'.report.kind # "none"

\* The run's fetch succeeded: it got a sequence with rows in it.
FetchSucceeded == job'.dataframe.value = "DataFrame" /\ job'.dataframe.df # <<>>

\* The display summary is the one of the sequence df.
SummaryOf(file, df) ==
    /\ Len(file) = 1
    /\ file[1].latest_date_str = Last(df).Date
    /\ file[1].latest_spx = Last(df).SPX
    /\ file[1].test_2s_lower = Last(df).Lower_2s
    /\ file[1].test_2s_upper = Last(df).Upper_2s
    /\ file[1].pred_2s_lower = Last(df).Predicted_2s_Lower
    /\ file[1].pred_2s_upper = Last(df).Predicted_2s_Upper

\* C12: every run of the fetch job either, its fetch having succeeded,
\* leaves the snapshot file holding exactly the new sequence and the display
\* file holding the summary of that sequence, or, its fetch having failed or
\* come back empty, leaves both files as they were.
C12_SavedOrUntouched ==
    [][JobRuns =>
          IF FetchSucceeded
          THEN /\ data_file' = <<job'.dataframe.df>>
               /\ SummaryOf(display_file', job'.dataframe.df)
          ELSE UNCHANGED <<data_file, display_file>>]_vars

\* The ^VIX rows dated at or before d.
VolRowsUpTo(d) == {j \in 1..Len(vix_data) : vix_data[j].Date <= d}

\* v is the volatility close of the latest ^VIX date at or before d.
LatestVol(d, v) ==
    \E j \in VolRowsUpTo(d) :
        /\ vix_data[j].Close = v
        /\ \A k \in VolRowsUpTo(d) : vix_data[k].Date <= vix_data[j].Date

\* Both series have rows and the first ^GSPC date has no ^VIX value at or
\* before it.
FirstDateUncovered ==
    /\ spx_data # <<>>
    /\ vix_data # <<>>
    /\ VolRowsUpTo(spx_data[1].Date) = {}

\* C13: every row of a returned sequence is dated on a ^GSPC date and
\* carries the volatility close of the latest ^VIX date at or before its
\* own, and the calculation fails with InsufficientDataError, returning no
\* rows of undefined sigma, when the first ^GSPC date has no ^VIX value at
\* or before it.
C13_ForwardFill ==
    \A c \in Calls :
        /\ \A i \in 1..Len(c.df) :
              /\ c.df[i].Date \in {spx_data[j].Date : j \in 1..Len(spx_data)}
              /\ LatestVol(c.df[i].Date, c.df[i].VIX)
              /\ ~IsNaN(c.df[i].Daily_Sigma)
        /\ FirstDateUncovered => c.value = "InsufficientDataError"

\* The latest job run's sequence passed the guard before get_display_data:
\* not None and not empty.
GuardPassed == job.dataframe.value = "DataFrame" /\ job.dataframe.df # <<>>

\* C14: whenever a job run's sequence passes the guard, it has at least two
\* rows, so get_display_data finds its latest and its previous row, two
\* consecutive observations, and the run completes without an unhandled
\* error.
C14_DisplayDataHasTwoRows ==
    (job.report.kind # "none" /\ GuardPassed) =>
        /\ Len(job.dataframe.df) >= 2
        /\ job.report.kind = "saved"
        /\ display_file # <<>>
        /\ display_file[1].latest_date_str = Last(job.dataframe.df).Date
        /\ display_file[1].previous_date_str
              = job.dataframe.df[Len(job.dataframe.df) - 1].Date
        /\ display_file[1].previous_date_str < display_file[1].latest_date_str
====
